---- MODULE Spec2Model ----
(***************************************************************************)
(* Model of scripts/geocode-servers.mjs: the geocoding pipeline that reads *)
(* a catalog { country: [city, ...] }, resolves every city through a       *)
(* provider behind a PQueue limiter, and persists a cache and an output.   *)
(*                                                                         *)
(* Strings are sequences of symbols.  A symbol is one character, except    *)
(* that the nine characters "(virtual)" are one symbol, in two spellings   *)
(* (the regular expression of normalizeName is case-insensitive).          *)
(***************************************************************************)
EXTENDS Integers, Sequences, FiniteSets, TLC

\* ------------------------------------------------------------------ bounds
\* number of distinct coordinates a provider may answer with
NumCoords == 2
\* time (ms) a provider call takes
CallMs == 300
\* number of keys a loaded cache file holds at most
MaxCached == 2

\* ------------------------------------------------------- program constants
SleepMs == 1100
KeyedConcurrency == 6
UnkeyedConcurrency == 1

\* a progress line is printed at every multiple of this number of completions
ProgressEvery == 10

VARIABLES
  MAPTILER_KEY,  \* the credential: "" selects Nominatim, anything else MapTiler
  raw,           \* the parsed input file: sequence of [country, cities]
  cacheFile,     \* data/geocode-cache.json as persisted
  outFile,       \* data/servers_geocoded.json as persisted
  cache,         \* in-memory cache: key -> [lat, lng]
  out,           \* in-memory output: country -> sequence of [name, lat, lng]
  work,          \* the work list: sequence of [country, city, k]
  bi,            \* index of the catalog entry the builder loop is at
  pc,            \* position of the main function
  provider,      \* how the provider answers in this run
  scrape,        \* the catalog acquisition script: where it is and what it did
  loaded,        \* what JSON.parse made of the input file and of the cache file
  run,           \* 1 in the first run of the script, 2 in a run that follows it
  log,           \* the progress lines printed: [processed, hits, misses]
  tasks,         \* one record per queued task
  allCities, processed, hits, misses,
  now,           \* wall clock (ms), observed on the Nominatim path
  timing         \* observation of the Nominatim calls issued so far

vars == << MAPTILER_KEY, raw, cacheFile, outFile, cache, out, work, bi, pc,
           provider, scrape, loaded, run, log, tasks, allCities, processed, hits, misses, now,
           timing >>

\* ----------------------------------------------------------------- strings
SP == " "

IsVirtual(x) == x \in {"(virtual)", "(VIRTUAL)"}

RECURSIVE TrimEnd(_)
TrimEnd(s) ==
  IF Len(s) > 0 /\ s[Len(s)] = SP THEN TrimEnd(SubSeq(s, 1, Len(s) - 1)) ELSE s

RECURSIVE TrimStart(_)
TrimStart(s) ==
  IF Len(s) > 0 /\ s[1] = SP THEN TrimStart(Tail(s)) ELSE s

\* s.replace(/\s+\(virtual\)\s*$/i, ""): the leftmost match takes the whole
\* run of white space before the last "(virtual)", which must end the string
\* up to white space
StripVirtual(s) ==
  LET t == TrimEnd(s) IN
  IF Len(t) >= 2 /\ IsVirtual(t[Len(t)]) /\ t[Len(t) - 1] = SP
  THEN TrimEnd(SubSeq(t, 1, Len(t) - 1))
  ELSE s

normalizeName(s) == TrimStart(TrimEnd(StripVirtual(s)))

key(country, city) == country \o <<":", ":">> \o city

\* faulty variant: the fallback repeats the compound query
bareQuery_Compound(w) == w.city \o <<",", SP>> \o w.country

\* the two provider queries of a work item
bareQuery(w) == w.city
compoundQuery(w) == w.city \o <<",", SP>> \o w.country

\* ---------------------------------------------------------------- catalogs
\* a provider call that found nothing returns null; one that failed throws
NULL == [kind |-> "null"]
ERR == [kind |-> "error"]

G == <<"G">>
Gv == <<"G", SP, "(virtual)">>
F == <<"F">>
B == <<"B">>
Bv == <<"B", SP, "(VIRTUAL)">>
M == <<"M">>
Blank == <<SP>>

\* an entry of Object.entries(raw); falsy marks a value such as null, that
\* (cities || []) replaces by []
Entry(country, cities) == [country |-> country, falsy |-> FALSE, cities |-> cities]
NullEntry(country) == [country |-> country, falsy |-> TRUE, cities |-> << >>]

\* the catalogs of the small runs: the empty catalog, a city and its virtual
\* twin, two raw countries with one normalized name, countries without
\* cities, a blank city beside a plain one
Catalogs ==
  { << >>,
    << Entry(G, <<B, Bv>>) >>,
    << Entry(G, <<B, M>>), Entry(F, << >>), Entry(Gv, <<B>>) >>,
    << Entry(F, << >>), NullEntry(M), Entry(G, <<M>>) >>,
    << Entry(F, <<Blank, M>>), Entry(G, <<B>>) >> }

\* one more single-city country than the keyed limiter admits at a time
WideCities == KeyedConcurrency + 1
WideCatalog ==
  [ i \in 1..WideCities |->
      Entry([j \in 1..i |-> "W"], <<B>>) ]

\* ------------------------------------------------------------- coordinates
Points == { [lat |-> n, lng |-> 0 - n] : n \in 1..NumCoords }

\* what geocodeMapTiler / geocodeNominatim return
Results ==
  { [kind |-> "result", lat |-> p.lat, lng |-> p.lng,
     provider |-> IF MAPTILER_KEY # "" THEN "maptiler" ELSE "nominatim"] : p \in Points }

\* a provider call returns a result, returns null, or throws
Outcomes == Results \cup {NULL, ERR}

\* (cities || [])
citiesOf(e) == IF e.falsy THEN <<>> ELSE e.cities

\* the items the builder loop pushes for one catalog entry
itemsOf(e) ==
  LET country == normalizeName(e.country) IN
  [ j \in 1..Len(citiesOf(e)) |->
      [ country |-> country,
        city |-> normalizeName(citiesOf(e)[j]),
        k |-> key(country, normalizeName(citiesOf(e)[j])) ] ]

\* the keys a catalog can ask for
KeysOf(cat) ==
  UNION { { itemsOf(cat[i])[j].k : j \in 1..Len(itemsOf(cat[i])) } : i \in 1..Len(cat) }

\* the mappings a cache file written by an earlier run can hold for a catalog
CachesFor(keys) ==
  UNION { [S -> Points] : S \in { T \in SUBSET keys : Cardinality(T) <= MaxCached } }

\* a provider that may answer any call in any way
FreeProvider == [free |-> TRUE, compound |-> NULL, bare |-> NULL, table |-> << >>]

\* providers that answer every compound query alike and every bare query alike
UniformProviders ==
  LET A == { r \in Results : r.lat = 1 } \cup {NULL, ERR} IN
  { [free |-> FALSE, compound |-> a, bare |-> b, table |-> << >>] : a \in A, b \in A }

\* the queries a catalog can send
QueriesOf(cat) ==
  UNION { UNION { { compoundQuery(itemsOf(cat[i])[j]), bareQuery(itemsOf(cat[i])[j]) } :
                    j \in 1..Len(itemsOf(cat[i])) } : i \in 1..Len(cat) }

\* providers that answer a query the same way whenever it is sent: with a
\* coordinate, with null, or by failing
TableProviders(queries) ==
  LET A == { r \in Results : r.lat = 1 } \cup {NULL, ERR} IN
  { [free |-> FALSE, compound |-> NULL, bare |-> NULL, table |-> t] : t \in [queries -> A] }

\* the outcomes the provider can give to the query q, compound or bare
AnswersTo(kind, q) ==
  IF provider.free THEN Outcomes
  ELSE IF q \in DOMAIN provider.table THEN { provider.table[q] }
  ELSE { IF kind = "compound" THEN provider.compound ELSE provider.bare }

Put(f, k, v) == [ x \in (DOMAIN f) \cup {k} |-> IF x = k THEN v ELSE f[x] ]

EmptyMap == << >>

\* the output file before the run writes it
NoFile == [written |-> FALSE, data |-> EmptyMap]

\* faulty variant: the keyed limiter admits one call too many
concurrency_OneMore ==
  IF MAPTILER_KEY # "" THEN KeyedConcurrency + 1 ELSE UnkeyedConcurrency

concurrency == IF MAPTILER_KEY # "" THEN KeyedConcurrency ELSE UnkeyedConcurrency

\* ------------------------------------------------------------- acquisition
\* the catalog acquisition script is not running
NoScrape == [pc |-> "off"]

\* ------------------------------------------------------------------- files
\* what loadJSON returns for a file: the mapping a JSON object parses to, the
\* fallback {} for a file that is absent or is not JSON, null, or an array
FileKinds == {"object", "absent", "malformed", "null", "array"}

\* both files hold a JSON object
ObjectFiles == [input |-> "object", cache |-> "object"]

\* Object.entries(raw) throws a TypeError when raw is null
entriesThrows == loaded.input = "null"

\* cache[k] throws a TypeError when cache is null
lookupThrows == loaded.cache = "null"

\* JSON.stringify(cache, null, 2): the keys assigned to an array are not array
\* elements and are left out
stringify(c) == IF loaded.cache = "array" THEN EmptyMap ELSE c

\* --------------------------------------------------------------------- init
InitCommon ==
  /\ MAPTILER_KEY \in {"", "key"}
  /\ cache = cacheFile
  /\ outFile = NoFile
  /\ out = EmptyMap
  /\ work = <<>>
  /\ bi = 1
  /\ pc = "build"
  /\ tasks = <<>>
  /\ allCities = 0 /\ processed = 0 /\ hits = 0 /\ misses = 0
  /\ now = 0
  /\ timing = [calls |-> 0, lastEnd |-> -1, gap |-> SleepMs]
  /\ run = 1
  /\ log = << >>

InitSmall ==
  /\ scrape = NoScrape
  /\ loaded = ObjectFiles
  /\ raw \in Catalogs
  /\ cacheFile \in CachesFor(KeysOf(raw))
  /\ InitCommon
  /\ provider = FreeProvider

InitWide ==
  /\ scrape = NoScrape
  /\ loaded = ObjectFiles
  /\ raw = WideCatalog
  /\ cacheFile \in { EmptyMap, [ x \in {key(<<"W">>, B)} |-> [lat |-> 1, lng |-> -1] ] }
  /\ InitCommon
  /\ provider \in UniformProviders

Init == InitSmall \/ InitWide

\* ------------------------------------------------------------ builder loop
\* faulty variant: the list of a country is created only when the country has cities
BuildCountry_LazyList ==
  /\ pc = "build"
  /\ ~ entriesThrows
  /\ bi <= Len(raw)
  /\ out' = IF citiesOf(raw[bi]) = << >> THEN out
            ELSE Put(out, normalizeName(raw[bi].country), << >>)
  /\ work' = work \o itemsOf(raw[bi])
  /\ bi' = bi + 1
  /\ UNCHANGED << MAPTILER_KEY, provider, scrape, loaded, run, log, raw, cacheFile, outFile, cache, pc, tasks,
                  allCities, processed, hits, misses, now, timing >>

\* one iteration of `for (const [countryRaw, cities] of Object.entries(raw))`
BuildCountry ==
  /\ pc = "build"
  /\ ~ entriesThrows
  /\ bi <= Len(raw)
  /\ out' = Put(out, normalizeName(raw[bi].country), << >>)
  /\ work' = work \o itemsOf(raw[bi])
  /\ bi' = bi + 1
  /\ UNCHANGED << MAPTILER_KEY, provider, scrape, loaded, run, log, raw, cacheFile, outFile, cache, pc, tasks,
                  allCities, processed, hits, misses, now, timing >>

\* st is the await a task is at; calls, first, second and fin observe the
\* queries it issued, how the compound and the bare query ended, and how the
\* task ended
NewTask == [st |-> "queued", res |-> NULL, calls |-> << >>, first |-> "none",
            second |-> "none", fin |-> "none", wakeAt |-> 0]

\* allCities = work.length, the counters, and work.map(... queue.add(...))
Schedule ==
  /\ pc = "build"
  /\ ~ entriesThrows
  /\ bi > Len(raw)
  /\ allCities' = Len(work)
  /\ tasks' = [ i \in 1..Len(work) |-> NewTask ]
  /\ pc' = "run"
  /\ UNCHANGED << MAPTILER_KEY, provider, scrape, loaded, run, log, raw, cacheFile, outFile, cache, out, work, bi,
                  processed, hits, misses, now, timing >>

\* ------------------------------------------------------------------ limiter
\* faulty variant: a task that ended as a miss keeps its slot of the queue
Running_MissKeepsSlot ==
  { i \in 1..Len(tasks) :
      tasks[i].st # "queued" /\ ~ (tasks[i].st = "done" /\ tasks[i].fin # "miss") }

\* tasks that hold a slot of the queue
Running == { i \in 1..Len(tasks) : tasks[i].st \notin {"queued", "done"} }

\* provider calls that are outstanding
Outstanding == { i \in 1..Len(tasks) : tasks[i].st \in {"primary", "fallback"} }

\* PQueue starts the oldest queued task as soon as a slot is free
CanStart(i) ==
  /\ pc = "run"
  /\ i \in 1..Len(tasks)
  /\ tasks[i].st = "queued"
  /\ \A j \in 1..(i - 1) : tasks[j].st # "queued"
  /\ Cardinality(Running) < concurrency

\* a network answer or a timer is handled only once the synchronous code and
\* its microtasks, the start of the next task included, have run
Idle == pc = "run" /\ ~ \E i \in 1..Len(tasks) : CanStart(i)

\* --------------------------------------------------------------------- task
\* faulty variant: the cache is looked up under a key that it never holds
cacheHit_Never(k) == FALSE

\* if (cache[k]): a cache value is an object { lat, lng }
cacheHit(k) == k \in DOMAIN cache

\* if (res) / if (!res)
truthy(res) == res.kind = "result"

\* the time a provider call takes; the clock is observed on the Nominatim path
Latencies == IF MAPTILER_KEY # "" THEN {0} ELSE {CallMs}

\* the time at which a timer due at `due` fires
FireTime(due) == IF now > due THEN now ELSE due

\* observation: a Nominatim call is issued at time t
issued(tm, t) ==
  IF MAPTILER_KEY # "" THEN tm
  ELSE [ calls |-> tm.calls + 1, lastEnd |-> tm.lastEnd,
         gap |-> IF tm.lastEnd = -1 THEN SleepMs ELSE t - tm.lastEnd ]

\* observation: a Nominatim call ends (returns or throws) at time t
ended(tm, t) ==
  IF MAPTILER_KEY # "" THEN tm ELSE [ tm EXCEPT !.lastEnd = t ]

\* faulty variant: a line is printed only at the multiples of 10
progressDue_OnlyTens(p) == p % ProgressEvery = 0

\* processed % 10 === 0 || processed === allCities
progressDue(p) == p % ProgressEvery = 0 \/ p = allCities

\* console.log of the progress line, with the counters as they are after the
\* increments of this completion
logProgress(p, h, m) ==
  IF progressDue(p) THEN Append(log, [processed |-> p, hits |-> h, misses |-> m])
  ELSE log

\* faulty variant: latitude and longitude change places in the output entry
outEntry_Swapped(w, c) == [name |-> w.city, lat |-> c.lng, lng |-> c.lat]

\* { name: city, ...cache[k] }
outEntry(w, c) == [name |-> w.city, lat |-> c.lat, lng |-> c.lng]

\* the tail of a task: record the result or count a miss, then processed++
Finish(i, tk, r) ==
  /\ IF truthy(r)
     THEN /\ cache' = Put(cache, work[i].k, [lat |-> r.lat, lng |-> r.lng])
          /\ out' = [ out EXCEPT ![work[i].country] =
                        Append(@, outEntry(work[i], [lat |-> r.lat, lng |-> r.lng])) ]
          /\ misses' = misses
     ELSE /\ misses' = misses + 1
          /\ UNCHANGED << cache, out >>
  /\ processed' = processed + 1
  /\ log' = logProgress(processed + 1, hits, IF truthy(r) THEN misses ELSE misses + 1)
  /\ tasks' = [ tasks EXCEPT ![i] =
                  [ tk EXCEPT !.st = "done", !.res = r,
                              !.fin = IF truthy(r) THEN "resolved" ELSE "miss" ] ]

\* the fallback call with the bare city name is issued at time t
IssueFallback(i, tk, t) ==
  /\ tasks' = [ tasks EXCEPT ![i] =
                  [ tk EXCEPT !.st = "fallback", !.res = NULL,
                              !.calls = Append(@, bareQuery(work[i])) ] ]
  /\ UNCHANGED << cache, out, misses, processed, log >>

\* faulty variant: a cache hit is not counted as processed
StartHit_NotProcessed(i) ==
  /\ CanStart(i)
  /\ ~ lookupThrows
  /\ cacheHit(work[i].k)
  /\ out' = [ out EXCEPT ![work[i].country] =
                Append(@, outEntry(work[i], cache[work[i].k])) ]
  /\ hits' = hits + 1
  /\ tasks' = [ tasks EXCEPT ![i] = [ @ EXCEPT !.st = "done", !.fin = "hit" ] ]
  /\ UNCHANGED << MAPTILER_KEY, provider, scrape, loaded, run, log, raw, cacheFile, outFile, cache, work, bi,
                  pc, allCities, processed, misses, now, timing >>

\* faulty variant: the cache hit path counts the city and leaves it out of the output
StartHit_NoOutput(i) ==
  /\ CanStart(i)
  /\ ~ lookupThrows
  /\ cacheHit(work[i].k)
  /\ hits' = hits + 1
  /\ processed' = processed + 1
  /\ log' = logProgress(processed + 1, hits + 1, misses)
  /\ tasks' = [ tasks EXCEPT ![i] = [ @ EXCEPT !.st = "done", !.fin = "hit" ] ]
  /\ UNCHANGED << MAPTILER_KEY, provider, scrape, loaded, run, raw, cacheFile, outFile, cache, out, work, bi,
                  pc, allCities, misses, now, timing >>

\* a task starts and finds its key in the cache
StartHit(i) ==
  /\ CanStart(i)
  /\ ~ lookupThrows
  /\ cacheHit(work[i].k)
  /\ out' = [ out EXCEPT ![work[i].country] =
                Append(@, outEntry(work[i], cache[work[i].k])) ]
  /\ hits' = hits + 1
  /\ processed' = processed + 1
  /\ log' = logProgress(processed + 1, hits + 1, misses)
  /\ tasks' = [ tasks EXCEPT ![i] = [ @ EXCEPT !.st = "done", !.fin = "hit" ] ]
  /\ UNCHANGED << MAPTILER_KEY, provider, scrape, loaded, run, raw, cacheFile, outFile, cache, work, bi, pc,
                  allCities, misses, now, timing >>

\* a task starts, misses the cache and issues the compound query
StartCall(i) ==
  /\ CanStart(i)
  /\ ~ lookupThrows
  /\ ~ cacheHit(work[i].k)
  /\ tasks' = [ tasks EXCEPT ![i] =
                  [ @ EXCEPT !.st = "primary",
                             !.calls = Append(@, compoundQuery(work[i])) ] ]
  /\ timing' = issued(timing, now)
  /\ UNCHANGED << MAPTILER_KEY, provider, scrape, loaded, run, log, raw, cacheFile, outFile, cache, out, work, bi,
                  pc, allCities, processed, hits, misses, now >>

\* MapTiler answers the compound query with a result: no further await
PrimaryResolved(i) ==
  /\ Idle
  /\ i \in 1..Len(tasks) /\ tasks[i].st = "primary"
  /\ MAPTILER_KEY # ""
  /\ \E o \in AnswersTo("compound", compoundQuery(work[i])) \cap Results, d \in Latencies :
       /\ now' = now + d
       /\ Finish(i, [ tasks[i] EXCEPT !.first = o.kind ], o)
  /\ UNCHANGED << MAPTILER_KEY, provider, scrape, loaded, run, raw, cacheFile, outFile, work, bi, pc,
                  allCities, hits, timing >>

\* the compound query leaves res null without a sleep: MapTiler returned null
\* or threw, or Nominatim threw (the sleep of line 126 is skipped)
PrimaryRetry(i) ==
  /\ Idle
  /\ i \in 1..Len(tasks) /\ tasks[i].st = "primary"
  /\ \E o \in AnswersTo("compound", compoundQuery(work[i])) \cap
               (IF MAPTILER_KEY # "" THEN {NULL, ERR} ELSE {ERR}), d \in Latencies :
       /\ now' = now + d
       /\ IssueFallback(i, [ tasks[i] EXCEPT !.first = o.kind ], now + d)
       /\ timing' = issued(ended(timing, now + d), now + d)
  /\ UNCHANGED << MAPTILER_KEY, provider, scrape, loaded, run, raw, cacheFile, outFile, work, bi, pc,
                  allCities, hits >>

\* Nominatim returns (a result or null): await sleep(1100)
PrimarySleep(i) ==
  /\ Idle
  /\ i \in 1..Len(tasks) /\ tasks[i].st = "primary"
  /\ MAPTILER_KEY = ""
  /\ \E o \in AnswersTo("compound", compoundQuery(work[i])) \cap (Results \cup {NULL}), d \in Latencies :
       /\ now' = now + d
       /\ tasks' = [ tasks EXCEPT ![i] =
                       [ @ EXCEPT !.st = "sleep1", !.res = o,
                                  !.first = o.kind,
                                  !.wakeAt = now + d + SleepMs ] ]
       /\ timing' = ended(timing, now + d)
  /\ UNCHANGED << MAPTILER_KEY, provider, scrape, loaded, run, log, raw, cacheFile, outFile, cache, out, work, bi,
                  pc, allCities, processed, hits, misses >>

\* the sleep after the compound query ends
Sleep1Done(i) ==
  /\ Idle
  /\ i \in 1..Len(tasks) /\ tasks[i].st = "sleep1"
  /\ LET t == FireTime(tasks[i].wakeAt) IN
       /\ now' = t
       /\ IF truthy(tasks[i].res)
          THEN Finish(i, tasks[i], tasks[i].res) /\ timing' = timing
          ELSE IssueFallback(i, tasks[i], t) /\ timing' = issued(timing, t)
  /\ UNCHANGED << MAPTILER_KEY, provider, scrape, loaded, run, raw, cacheFile, outFile, work, bi, pc,
                  allCities, hits >>

\* the bare query ends without a sleep: MapTiler answered, or Nominatim threw
FallbackDone(i) ==
  /\ Idle
  /\ i \in 1..Len(tasks) /\ tasks[i].st = "fallback"
  /\ \E o \in AnswersTo("bare", bareQuery(work[i])) \cap
               (IF MAPTILER_KEY # "" THEN Outcomes ELSE {ERR}), d \in Latencies :
       /\ now' = now + d
       /\ Finish(i, [ tasks[i] EXCEPT !.second = o.kind ],
                 IF truthy(o) THEN o ELSE NULL)
       /\ timing' = ended(timing, now + d)
  /\ UNCHANGED << MAPTILER_KEY, provider, scrape, loaded, run, raw, cacheFile, outFile, work, bi, pc,
                  allCities, hits >>

\* Nominatim returns from the bare query: await sleep(1100)
FallbackSleep(i) ==
  /\ Idle
  /\ i \in 1..Len(tasks) /\ tasks[i].st = "fallback"
  /\ MAPTILER_KEY = ""
  /\ \E o \in AnswersTo("bare", bareQuery(work[i])) \cap (Results \cup {NULL}), d \in Latencies :
       /\ now' = now + d
       /\ tasks' = [ tasks EXCEPT ![i] =
                       [ @ EXCEPT !.st = "sleep2", !.res = o,
                                  !.second = o.kind,
                                  !.wakeAt = now + d + SleepMs ] ]
       /\ timing' = ended(timing, now + d)
  /\ UNCHANGED << MAPTILER_KEY, provider, scrape, loaded, run, log, raw, cacheFile, outFile, cache, out, work, bi,
                  pc, allCities, processed, hits, misses >>

\* the sleep after the bare query ends
Sleep2Done(i) ==
  /\ Idle
  /\ i \in 1..Len(tasks) /\ tasks[i].st = "sleep2"
  /\ LET t == FireTime(tasks[i].wakeAt) IN
       /\ now' = t
       /\ Finish(i, tasks[i], tasks[i].res)
  /\ UNCHANGED << MAPTILER_KEY, provider, scrape, loaded, run, raw, cacheFile, outFile, work, bi, pc,
                  allCities, hits, timing >>

\* ------------------------------------------------------------------ persist
\* faulty variant: the cache is written without waiting for the tasks
PersistCache_Early ==
  /\ pc = "run"
  /\ cacheFile' = stringify(cache)
  /\ pc' = "cacheWritten"
  /\ UNCHANGED << MAPTILER_KEY, provider, scrape, loaded, run, log, raw, outFile, cache, out, work, bi,
                  tasks, allCities, processed, hits, misses, now, timing >>

\* await Promise.all(tasks); mkdir; fs.writeFile(CACHE, ...)
PersistCache ==
  /\ pc = "run"
  /\ \A i \in 1..Len(tasks) : tasks[i].st = "done"
  /\ cacheFile' = stringify(cache)
  /\ pc' = "cacheWritten"
  /\ UNCHANGED << MAPTILER_KEY, provider, scrape, loaded, run, log, raw, outFile, cache, out, work, bi, tasks,
                  allCities, processed, hits, misses, now, timing >>

\* fs.writeFile(OUTPUT, ...)
PersistOut ==
  /\ pc = "cacheWritten"
  /\ outFile' = [written |-> TRUE, data |-> out]
  /\ pc' = "done"
  /\ UNCHANGED << MAPTILER_KEY, provider, scrape, loaded, run, log, raw, cacheFile, cache, out, work, bi, tasks,
                  allCities, processed, hits, misses, now, timing >>

Next ==
  \/ BuildCountry
  \/ Schedule
  \/ \E i \in 1..Len(tasks) : StartHit(i)
  \/ \E i \in 1..Len(tasks) : StartCall(i)
  \/ \E i \in 1..Len(tasks) : PrimaryResolved(i)
  \/ \E i \in 1..Len(tasks) : PrimaryRetry(i)
  \/ \E i \in 1..Len(tasks) : PrimarySleep(i)
  \/ \E i \in 1..Len(tasks) : Sleep1Done(i)
  \/ \E i \in 1..Len(tasks) : FallbackDone(i)
  \/ \E i \in 1..Len(tasks) : FallbackSleep(i)
  \/ \E i \in 1..Len(tasks) : Sleep2Done(i)
  \/ PersistCache
  \/ PersistOut

Spec == Init /\ [][Next]_vars

\* the run under weak fairness: every provider call that is outstanding ends,
\* every timer fires and every continuation that is ready runs
FairSpec == Spec /\ WF_vars(Next)

\* ---------------------------------------------------------------- two runs
\* the catalogs of the two-run specification
TwiceCatalogs ==
  { << Entry(G, <<B, Bv>>) >>,
    << Entry(G, <<B, M>>), Entry(F, << >>), Entry(Gv, <<B>>) >>,
    << Entry(F, << >>), NullEntry(M), Entry(G, <<M>>) >> }

\* the first of two runs: the cache file holds at most one key, and the
\* provider answers every query the same way whenever it is sent
InitTwice ==
  /\ scrape = NoScrape
  /\ loaded = ObjectFiles
  /\ raw \in TwiceCatalogs
  /\ cacheFile \in { c \in CachesFor(KeysOf(raw)) : Cardinality(DOMAIN c) <= 1 }
  /\ InitCommon
  /\ provider \in TableProviders(QueriesOf(raw))

\* the script is started again after a finished run: the input is read again,
\* the cache is loaded from the file the first run wrote, out and the counters
\* start afresh; the output file of the first run is still on disk
Restart ==
  /\ pc = "done"
  /\ run = 1
  /\ run' = 2
  /\ cache' = cacheFile
  /\ out' = EmptyMap
  /\ work' = <<>>
  /\ bi' = 1
  /\ pc' = "build"
  /\ tasks' = <<>>
  /\ allCities' = 0 /\ processed' = 0 /\ hits' = 0 /\ misses' = 0
  /\ now' = 0
  /\ timing' = [calls |-> 0, lastEnd |-> -1, gap |-> SleepMs]
  /\ log' = << >>
  /\ UNCHANGED << MAPTILER_KEY, provider, scrape, loaded, raw, cacheFile, outFile >>

NextTwice ==
  \/ BuildCountry
  \/ Schedule
  \/ \E i \in 1..Len(tasks) : StartHit(i)
  \/ \E i \in 1..Len(tasks) : StartCall(i)
  \/ \E i \in 1..Len(tasks) : PrimaryResolved(i)
  \/ \E i \in 1..Len(tasks) : PrimaryRetry(i)
  \/ \E i \in 1..Len(tasks) : PrimarySleep(i)
  \/ \E i \in 1..Len(tasks) : Sleep1Done(i)
  \/ \E i \in 1..Len(tasks) : FallbackDone(i)
  \/ \E i \in 1..Len(tasks) : FallbackSleep(i)
  \/ \E i \in 1..Len(tasks) : Sleep2Done(i)
  \/ PersistCache
  \/ PersistOut
  \/ Restart

SpecTwice == InitTwice /\ [][NextTwice]_vars

\* ================================================================== claims
Tasks == 1..Len(tasks)

\* C1: the number of provider calls outstanding at the same time is at most 6
\* with a credential and at most 1 without one
C1_OutstandingBounded ==
  Cardinality(Outstanding) <= (IF MAPTILER_KEY # "" THEN 6 ELSE 1)

\* seven tasks, a credential: six calls are outstanding and the seventh task waits
C1_Witness ==
  /\ MAPTILER_KEY # ""
  /\ Cardinality(Outstanding) = 6
  /\ \E i \in Tasks : tasks[i].st = "queued"

\* C2: on the Nominatim path every call, however it ended, is separated from
\* the next call by the full delay of 1100 ms, so N calls take at least
\* 1100 ms x (N - 1)
C2_DelayAfterEveryCall ==
  MAPTILER_KEY = "" =>
    /\ timing.gap >= 1100
    /\ timing.calls >= 1 => now >= 1100 * (timing.calls - 1)

\* C3: no provider call is issued for a work item whose key is in the cache
\* loaded at the start of the run (the cache file, until the run rewrites it)
C3_LoadedKeyNeverQueried ==
  pc = "run" =>
    \A i \in Tasks : work[i].k \in DOMAIN cacheFile => tasks[i].calls = << >>

\* a run in which one item was served from the loaded cache and another one
\* was sent to the provider
C3_Witness ==
  /\ pc = "run"
  /\ \E i, j \in Tasks :
       /\ work[i].k \in DOMAIN cacheFile /\ tasks[i].fin = "hit"
       /\ work[j].k \notin DOMAIN cacheFile /\ Len(tasks[j].calls) > 0

\* C4: once a key is in the cache no later step gives it another value, and
\* an item whose key is in the cache is not resolved through a provider
C4_KeyNeverOverwritten ==
  [][ /\ \A k \in DOMAIN cache : k \in DOMAIN cache' /\ cache'[k] = cache[k]
      /\ \A i \in Tasks \cap (1..Len(tasks')) :
           (work[i].k \in DOMAIN cache /\ tasks[i].st = "queued")
             => tasks'[i].st \in {"queued", "done"} ]_vars

\* C5: the work list holds one item per unique (normalized country,
\* normalized city) pair
C5_WorkListDeduplicated ==
  pc # "build" =>
    \A i, j \in 1..Len(work) :
      (work[i].country = work[j].country /\ work[i].city = work[j].city) => i = j

\* C6: an item that is no cache hit gets the compound query once, then the
\* bare city query once if and only if the compound query threw or returned
\* null, and never a third query
C6_CompoundThenOneFallback ==
  \A i \in Tasks :
    LET t == tasks[i] IN
    /\ Len(t.calls) <= 2
    /\ t.fin = "hit" => t.calls = << >>
    /\ (t.st # "queued" /\ t.fin # "hit") =>
         /\ Len(t.calls) >= 1
         /\ t.calls[1] = work[i].city \o <<",", " ">> \o work[i].country
    /\ Len(t.calls) = 2 =>
         /\ t.calls[2] = work[i].city
         /\ t.first \in {"null", "error"}
    /\ (t.st = "done" /\ t.first \in {"null", "error"}) => Len(t.calls) = 2
    /\ t.st = "fallback" => t.second = "none"
    /\ t.second # "none" => Len(t.calls) = 2

\* both kinds of item have completed: one resolved by its compound query
\* alone, one that needed the bare query
C6_Witness ==
  \E i, j \in Tasks :
    /\ tasks[i].st = "done" /\ tasks[i].first = "result" /\ Len(tasks[i].calls) = 1
    /\ tasks[j].st = "done" /\ tasks[j].first = "error" /\ Len(tasks[j].calls) = 2

\* the tasks that complete in a step without having hit the cache
Completing(i) ==
  /\ i \in Tasks /\ i \in 1..Len(tasks')
  /\ tasks[i].st # "done" /\ tasks'[i].st = "done" /\ tasks'[i].fin # "hit"

\* C7: a task that is no cache hit completes as a miss (misses + 1, cache and
\* output untouched) if and only if both its queries threw or returned null;
\* otherwise the coordinate that a query returned is written to the cache
\* under its key and appended to the list of its country, and misses stays
C7_MissIffBothQueriesFail ==
  [][ \A i \in Tasks : Completing(i) =>
        LET t == tasks'[i]
            failed == t.first \in {"null", "error"} /\ t.second \in {"null", "error"}
        IN  /\ (t.fin = "miss") <=> failed
            /\ failed =>
                 /\ misses' = misses + 1
                 /\ cache' = cache
                 /\ out' = out
            /\ ~ failed =>
                 /\ t.res.kind = "result"
                 /\ "result" \in {t.first, t.second}
                 /\ misses' = misses
                 /\ work[i].k \in DOMAIN cache'
                 /\ cache'[work[i].k] = [lat |-> t.res.lat, lng |-> t.res.lng]
                 /\ \A k \in DOMAIN cache : k # work[i].k => cache'[k] = cache[k]
                 /\ out'[work[i].country] =
                      Append(out[work[i].country],
                             [name |-> work[i].city, lat |-> t.res.lat, lng |-> t.res.lng])
                 /\ \A c \in DOMAIN out : c # work[i].country => out'[c] = out[c]
    ]_vars

\* a run that had a miss and an item whose compound query returned null and
\* whose bare query returned the coordinate now in the cache and the output
C7_Witness ==
  \E i, j \in Tasks :
    /\ tasks[i].fin = "miss" /\ misses >= 1
    /\ tasks[j].fin = "resolved" /\ tasks[j].first = "null" /\ tasks[j].second = "result"
    /\ work[j].k \in DOMAIN cache
    /\ \E n \in 1..Len(out[work[j].country]) : out[work[j].country][n].name = work[j].city

\* C8: every run processes all work items and then writes the cache file and
\* the output file, whatever the provider answers
C8_RunAlwaysPersists ==
  <>( /\ pc = "done"
      /\ processed = Len(work)
      /\ cacheFile = cache
      /\ outFile = [written |-> TRUE, data |-> out] )

\* a run in which every provider call failed has persisted
C8_Witness ==
  /\ pc = "done" /\ outFile.written
  /\ Len(work) >= 2
  /\ misses = Len(work)
  /\ \A i \in Tasks : tasks[i].first = "error" /\ tasks[i].second = "error"

\* the tasks that ended in each way
Ended(how) == { i \in Tasks : tasks[i].st = "done" /\ tasks[i].fin = how }

\* C9: processed, hits and misses never decrease; processed = hits + (items
\* resolved via a provider) + misses; every work item increments processed
\* once, so processed is the length of the work list at the end of the run
C9_CountersAddUp ==
  /\ [] /\ processed = Cardinality({ i \in Tasks : tasks[i].st = "done" })
        /\ hits = Cardinality(Ended("hit"))
        /\ misses = Cardinality(Ended("miss"))
        /\ processed = hits + Cardinality(Ended("resolved")) + misses
        /\ pc \in {"cacheWritten", "done"} => processed = Len(work)
  /\ [][ /\ processed' >= processed /\ processed' <= processed + 1
         /\ hits' >= hits
         /\ misses' >= misses ]_vars

\* a finished run that had a hit, a resolution and a miss
C9_Witness ==
  /\ pc = "done"
  /\ hits >= 1 /\ misses >= 1 /\ processed = 3
  /\ Ended("resolved") # {}

\* C10: when the output is persisted its keys are the normalized country
\* names of the catalog, a country without resolved cities having an empty
\* list; and a list that has an entry is never re-initialised
C10_EveryCountryHasAKey ==
  /\ [] ( pc \in {"cacheWritten", "done"} =>
            /\ DOMAIN out = { normalizeName(raw[i].country) : i \in 1..Len(raw) }
            /\ outFile.written => DOMAIN outFile.data = DOMAIN out )
  /\ [][ \A c \in DOMAIN out : out[c] # << >> =>
           /\ c \in DOMAIN out'
           /\ Len(out'[c]) >= Len(out[c])
           /\ SubSeq(out'[c], 1, Len(out[c])) = out[c] ]_vars

\* persisted: two raw countries with one normalized name, whose one list
\* holds the resolved cities of both, beside a country without cities, whose
\* list is empty
C10_Witness ==
  /\ pc = "done" /\ outFile.written
  /\ \E i, j, n \in 1..Len(raw) :
       /\ i # j
       /\ normalizeName(raw[i].country) = normalizeName(raw[j].country)
       /\ Len(outFile.data[normalizeName(raw[i].country)]) = 3
       /\ raw[n].cities = << >>
       /\ outFile.data[raw[n].country] = << >>

\* the number of times the entry e occurs in the list l
Count(l, e) == Cardinality({ n \in 1..Len(l) : l[n] = e })

\* two catalogs with the same countries and, per country, the same entries the
\* same number of times
SameCatalog(a, b) ==
  /\ DOMAIN a = DOMAIN b
  /\ \A c \in DOMAIN a :
       \A e \in { a[c][n] : n \in 1..Len(a[c]) } \cup { b[c][n] : n \in 1..Len(b[c]) } :
         Count(a[c], e) = Count(b[c], e)

AllCompleted ==
  pc = "run" /\ Len(tasks) = Len(work) /\ \A i \in Tasks : tasks[i].st = "done"

\* the work items have pairwise distinct keys
DistinctKeys == \A i, j \in 1..Len(work) : i # j => work[i].k # work[j].k

\* C12: when the keys of the catalog are pairwise distinct, the hits counter at
\* the end of the run is the number of keys the cache was loaded with,
\* whatever the provider answers and under either limiter bound
C12_HitsEqualLoadedKeys ==
  (AllCompleted /\ DistinctKeys) => hits = Cardinality(DOMAIN cacheFile)

\* a run over three distinct keys, two of them loaded, has completed
C12_Witness ==
  /\ AllCompleted /\ DistinctKeys
  /\ Len(work) = 3 /\ Cardinality(DOMAIN cacheFile) = 2 /\ hits = 2

\* C13: a city that is empty after normalization produces no work item
C13_NoEmptyCityInWork ==
  \A i \in 1..Len(work) : work[i].city # << >>

\* ------------------------------------------------------- keys of odd names
\* the longest name of the key specification
MaxNameLen == 2

\* a letter and the character the key separator is made of
KeyAlphabet == {"A", ":"}

RECURSIVE StringsUpTo(_)
\* the strings over KeyAlphabet of length at most n, the empty string included
StringsUpTo(n) ==
  IF n = 0 THEN { << >> }
  ELSE LET S == StringsUpTo(n - 1) IN
       S \cup { Append(s, ch) : s \in S, ch \in KeyAlphabet }

\* the catalogs with two cities, in two countries or in one
KeyCatalogs ==
  LET N == StringsUpTo(MaxNameLen) IN
  { << Entry(q[1], << q[3] >>), Entry(q[2], << q[4] >>) >> :
      q \in { r \in N \X N \X N \X N : r[1] # r[2] } }
  \cup { << Entry(q[1], << q[2], q[3] >>) >> : q \in N \X N \X N }

InitKey ==
  /\ scrape = NoScrape
  /\ loaded = ObjectFiles
  /\ raw \in KeyCatalogs
  /\ cacheFile = EmptyMap
  /\ InitCommon
  /\ provider = FreeProvider

\* the builder loop and the creation of the tasks
NextKey ==
  \/ BuildCountry
  \/ Schedule

SpecKey == InitKey /\ [][NextKey]_vars

\* C14: two work items with different (country, city) pairs have different
\* keys, also when the names contain the characters of the separator
C14_KeyInjective ==
  \A i, j \in 1..Len(work) :
    << work[i].country, work[i].city >> # << work[j].country, work[j].city >>
      => work[i].k # work[j].k

\* ---------------------------------------------------------------- bad files
\* the catalogs of the specification of files that are not JSON objects
LoadCatalogs ==
  { << Entry(G, <<B, Bv>>) >>,
    << Entry(F, << >>), NullEntry(M), Entry(G, <<M>>) >> }

\* Object.entries of an array input: the indices are the country names
ArrayInputs == { << >>, << Entry(<<"0">>, <<B>>) >> }

\* at least one of the two files is absent, is not JSON, or holds null or an
\* array
InitLoad ==
  /\ scrape = NoScrape
  /\ loaded \in [input : FileKinds, cache : FileKinds] \ {ObjectFiles}
  /\ raw \in (IF loaded.input = "object" THEN LoadCatalogs
              ELSE IF loaded.input = "array" THEN ArrayInputs
              ELSE { << >> })
  /\ cacheFile \in (IF loaded.cache = "object" THEN CachesFor(KeysOf(raw))
                    ELSE { EmptyMap })
  /\ InitCommon
  /\ provider = FreeProvider

\* for (... of Object.entries(raw)) with raw = null: the TypeError rejects the
\* promise of main, nothing catches it and the process ends
EntriesThrows ==
  /\ pc = "build"
  /\ entriesThrows
  /\ pc' = "aborted"
  /\ UNCHANGED << MAPTILER_KEY, provider, scrape, loaded, run, log, raw, cacheFile, outFile, cache,
                  out, work, bi, tasks, allCities, processed, hits, misses, now, timing >>

\* if (cache[k]) with cache = null: the task rejects, Promise.all rejects with
\* it, nothing catches it and the process ends
TaskThrows(i) ==
  /\ CanStart(i)
  /\ lookupThrows
  /\ tasks' = [ tasks EXCEPT ![i] = [ @ EXCEPT !.st = "done", !.fin = "threw" ] ]
  /\ pc' = "aborted"
  /\ UNCHANGED << MAPTILER_KEY, provider, scrape, loaded, run, log, raw, cacheFile, outFile, cache,
                  out, work, bi, allCities, processed, hits, misses, now, timing >>

NextLoad ==
  \/ BuildCountry
  \/ Schedule
  \/ \E i \in 1..Len(tasks) : StartHit(i)
  \/ \E i \in 1..Len(tasks) : StartCall(i)
  \/ \E i \in 1..Len(tasks) : PrimaryResolved(i)
  \/ \E i \in 1..Len(tasks) : PrimaryRetry(i)
  \/ \E i \in 1..Len(tasks) : PrimarySleep(i)
  \/ \E i \in 1..Len(tasks) : Sleep1Done(i)
  \/ \E i \in 1..Len(tasks) : FallbackDone(i)
  \/ \E i \in 1..Len(tasks) : FallbackSleep(i)
  \/ \E i \in 1..Len(tasks) : Sleep2Done(i)
  \/ PersistCache
  \/ PersistOut
  \/ EntriesThrows
  \/ \E i \in 1..Len(tasks) : TaskThrows(i)

SpecLoad == InitLoad /\ [][NextLoad]_vars

\* C15: a file that is absent, is not JSON, or holds null or an array counts
\* as an empty catalog or an empty cache, never aborts the run, and the run
\* persists every entry it resolved
C15_BadFileIsEmptyAndHarmless ==
  /\ pc # "aborted"
  /\ loaded.input # "object" => work = << >>
  /\ loaded.cache # "object" => hits = 0
  /\ pc = "done" =>
       \A i \in Tasks : tasks[i].fin = "resolved" => work[i].k \in DOMAIN cacheFile

\* ----------------------------------------------------------------- progress
\* the largest catalog of the progress specification has this many cities more
\* than ProgressEvery
MaxBeyond == 1

\* a country with n cities of different names
LongCatalog(n) == << Entry(<<"W">>, [ i \in 1..n |-> [ j \in 1..i |-> "W" ] ]) >>

\* the cache files that hold every city of a catalog of n cities but at most
\* two of its last three
AlmostAll(n) ==
  LET cat == LongCatalog(n)
      its == itemsOf(cat[1])
  IN  { [ k \in { its[i].k : i \in (1..n) \ U } |-> [lat |-> 1, lng |-> -1] ] :
          U \in { V \in SUBSET ((n - 2)..n) : Cardinality(V) <= 2 } }

\* catalogs of ProgressEvery cities and more, most of them in the cache
InitProgress ==
  /\ scrape = NoScrape
  /\ loaded = ObjectFiles
  /\ \E n \in ProgressEvery..(ProgressEvery + MaxBeyond) :
       /\ raw = LongCatalog(n)
       /\ cacheFile \in AlmostAll(n)
  /\ InitCommon
  /\ provider \in UniformProviders

SpecProgress == InitProgress /\ [][Next]_vars

\* C16: a step that completes a task prints one progress line, holding the
\* counters as they are after that completion, when processed has become a
\* multiple of 10 or the number of work items, and prints nothing otherwise;
\* no other step prints, and no two lines show the same value of processed
C16_ProgressExactlyWhenDue ==
  [][ /\ IF processed' # processed /\ (processed' % 10 = 0 \/ processed' = allCities')
         THEN log' = Append(log, [processed |-> processed', hits |-> hits',
                                  misses |-> misses'])
         ELSE log' = log
      /\ \A a, b \in 1..Len(log') : a # b => log'[a].processed # log'[b].processed
    ]_vars

\* a run over 11 cities has printed a line at 10 and a line at 11, with a miss
\* among the first ten completions
C16_Witness ==
  /\ Len(log) = 2
  /\ log[1].processed = 10 /\ log[1].misses = 1
  /\ log[2].processed = 11 /\ log[2].processed = allCities
  /\ MAPTILER_KEY # ""

\* ---------------------------------------------------------------- interrupt
\* the process is ended from outside (a signal) before or between the writes;
\* what is in memory is lost and the files stay as they are
Interrupt ==
  /\ pc \in {"build", "run", "cacheWritten"}
  /\ pc' = "killed"
  /\ UNCHANGED << MAPTILER_KEY, provider, scrape, loaded, run, log, raw, cacheFile, outFile, cache,
                  out, work, bi, tasks, allCities, processed, hits, misses, now, timing >>

NextInterrupt ==
  \/ BuildCountry
  \/ Schedule
  \/ \E i \in 1..Len(tasks) : StartHit(i)
  \/ \E i \in 1..Len(tasks) : StartCall(i)
  \/ \E i \in 1..Len(tasks) : PrimaryResolved(i)
  \/ \E i \in 1..Len(tasks) : PrimaryRetry(i)
  \/ \E i \in 1..Len(tasks) : PrimarySleep(i)
  \/ \E i \in 1..Len(tasks) : Sleep1Done(i)
  \/ \E i \in 1..Len(tasks) : FallbackDone(i)
  \/ \E i \in 1..Len(tasks) : FallbackSleep(i)
  \/ \E i \in 1..Len(tasks) : Sleep2Done(i)
  \/ PersistCache
  \/ PersistOut
  \/ Interrupt

SpecInterrupt == InitSmall /\ [][NextInterrupt]_vars

\* C17: the cache file changes only in a step taken when every work item has
\* completed, the output file only after the cache file was written, and
\* never both in one step; so every step taken before all work items have
\* completed, an interruption included, leaves both files as the run found them
C17_FilesChangeOnlyAfterAllCompleted ==
  [][ /\ cacheFile' # cacheFile => (AllCompleted /\ outFile' = outFile)
      /\ outFile' # outFile =>
           /\ pc = "cacheWritten" /\ cacheFile' = cacheFile
           /\ \A i \in Tasks : tasks[i].st = "done"
      /\ ~ (Len(tasks) = Len(work) /\ \A i \in Tasks : tasks[i].st = "done")
           => (cacheFile' = cacheFile /\ outFile' = outFile)
    ]_vars

\* the run was interrupted after it had resolved a city and before all work
\* items had completed, and the cache file does not hold that city
C17_Witness ==
  /\ pc = "killed"
  /\ \E i \in Tasks : tasks[i].st # "done"
  /\ \E i \in Tasks : tasks[i].fin = "resolved" /\ work[i].k \notin DOMAIN cacheFile
  /\ ~ outFile.written

\* C18: under the keyed limiter no two tasks with the same key are past the
\* cache check and not yet completed at the same time
C18_NoSameKeyInFlight ==
  MAPTILER_KEY # "" =>
    \A i, j \in Tasks :
      (i # j /\ tasks[i].st \notin {"queued", "done"} /\ tasks[j].st \notin {"queued", "done"})
        => work[i].k # work[j].k

\* C20: when the output is persisted, every entry of a country's list has its
\* key in the cache with the same latitude and longitude
C20_OutputMatchesCacheAtPersist ==
  pc = "cacheWritten" =>
    \A c \in DOMAIN out : \A n \in 1..Len(out[c]) :
      /\ key(c, out[c][n].name) \in DOMAIN cache
      /\ cache[key(c, out[c][n].name)] = [lat |-> out[c][n].lat, lng |-> out[c][n].lng]

\* ------------------------------------------------------ acquisition script
\* getJsonWithRetry(url, retries = 4)
Retries == 4

\* the clusters endpoints, in the order they are listed
ENDPOINTS == << "v4/server/clusters", "v3/server/clusters" >>

\* a fetch that throws, a response that is not ok, a body that is not JSON
Failures == {"neterror", "notok", "badjson"}

\* the JSON a response can hold: not an array, an empty array, an array of
\* cluster objects, an array with a null among its elements
Bodies == {"object", "emptyArray", "clusters", "nullElement"}

\* Array.isArray(json) && json.length > 0
nonEmptyArray(b) == b \in {"clusters", "nullElement"}

\* the script before its first fetch: clusters = [], used = ''
ScrapeStart ==
  [pc |-> "fetch", ep |-> 1, i |-> 0, wait |-> 0, fetched |-> << >>,
   got |-> [e \in 1..Len(ENDPOINTS) |-> "none"], clusters |-> "none", used |-> 0,
   writes |-> 0, exit |-> -1]

\* after the loop over the endpoints: exit 2 without clusters; else the map
\* is built, and c.country of a null element throws a TypeError that nothing
\* catches, which ends the process with status 1
afterLoop(s) ==
  IF s.clusters = "none" THEN [s EXCEPT !.pc = "exited", !.exit = 2]
  ELSE IF s.clusters = "nullElement" THEN [s EXCEPT !.pc = "exited", !.exit = 1]
  ELSE [s EXCEPT !.pc = "write"]

\* the next url of the for loop, or the end of the loop
nextEndpoint(s) ==
  IF s.ep < Len(ENDPOINTS) THEN [s EXCEPT !.ep = @ + 1, !.i = 0, !.pc = "fetch"]
  ELSE afterLoop(s)

InitScrape ==
  /\ scrape = ScrapeStart
  /\ loaded = ObjectFiles
  /\ raw = << >>
  /\ cacheFile = EmptyMap
  /\ InitCommon
  /\ provider = FreeProvider

\* one fetch of getJsonWithRetry and what follows it up to the next await
Fetch ==
  /\ scrape.pc = "fetch"
  /\ \E r \in Failures \cup Bodies :
       LET s1 == [scrape EXCEPT !.fetched = Append(@, scrape.ep), !.got[scrape.ep] = r]
       IN  scrape' =
             IF r \in Failures THEN [s1 EXCEPT !.pc = "delay", !.wait = 400 * (s1.i + 1)]
             ELSE IF nonEmptyArray(r)
                  THEN afterLoop([s1 EXCEPT !.clusters = r, !.used = s1.ep])
                  ELSE nextEndpoint(s1)
  /\ UNCHANGED << MAPTILER_KEY, provider, loaded, run, log, raw, cacheFile, outFile, cache,
                  out, work, bi, pc, tasks, allCities, processed, hits, misses, now, timing >>

\* the retry delay has passed: the next attempt, or throw lastErr after the
\* last one, which the loop over the endpoints catches
DelayDone ==
  /\ scrape.pc = "delay"
  /\ LET s1 == [scrape EXCEPT !.i = @ + 1, !.wait = 0]
     IN  scrape' = IF s1.i < Retries THEN [s1 EXCEPT !.pc = "fetch"] ELSE nextEndpoint(s1)
  /\ UNCHANGED << MAPTILER_KEY, provider, loaded, run, log, raw, cacheFile, outFile, cache,
                  out, work, bi, pc, tasks, allCities, processed, hits, misses, now, timing >>

\* fs.mkdir and fs.writeFile('data/servers.json', ...)
WriteServers ==
  /\ scrape.pc = "write"
  /\ scrape' = [scrape EXCEPT !.writes = @ + 1, !.pc = "exited", !.exit = 0]
  /\ UNCHANGED << MAPTILER_KEY, provider, loaded, run, log, raw, cacheFile, outFile, cache,
                  out, work, bi, pc, tasks, allCities, processed, hits, misses, now, timing >>

NextScrape ==
  \/ Fetch
  \/ DelayDone
  \/ WriteServers

SpecScrape == InitScrape /\ [][NextScrape]_vars

\* the endpoints are contacted in the listed order, each at most 4 times
FetchedInOrder ==
  /\ \A a, b \in 1..Len(scrape.fetched) : a < b => scrape.fetched[a] <= scrape.fetched[b]
  /\ \A e \in 1..Len(ENDPOINTS) :
       Cardinality({ a \in 1..Len(scrape.fetched) : scrape.fetched[a] = e }) <= 4

\* the endpoint in use is the first that returned a non-empty array, and no
\* later endpoint was contacted
UsesFirstYield ==
  scrape.used # 0 =>
    /\ scrape.got[scrape.used] \in {"clusters", "nullElement"}
    /\ \A e \in 1..(scrape.used - 1) : scrape.got[e] \notin {"clusters", "nullElement"}
    /\ \A a \in 1..Len(scrape.fetched) : scrape.fetched[a] <= scrape.used

\* C19: the acquisition script contacts its endpoints in the listed order with
\* at most 4 fetches each, uses the first that returns a non-empty array and
\* contacts none after it; when it has ended, it has exited with status 2 and
\* written nothing exactly when no endpoint returned a non-empty array, and
\* otherwise it has written data/servers.json exactly once
C19_AcquisitionExitAndWrite ==
  /\ FetchedInOrder
  /\ UsesFirstYield
  /\ scrape.writes <= 1
  /\ scrape.pc = "exited" =>
       LET yielded == \E e \in 1..Len(ENDPOINTS) : scrape.got[e] \in {"clusters", "nullElement"}
       IN  /\ (scrape.exit = 2 /\ scrape.writes = 0) <=> ~ yielded
           /\ yielded => scrape.writes = 1

====
